---------------------------- MODULE Spec2Model ----------------------------
(***************************************************************************)
(* ByteStreamController: a bounded byte buffer shared by producer threads  *)
(* (async_add_data), consumer threads (sync_get_data) and threads that     *)
(* stop and restart it.  The repository holds two copies of the class:     *)
(*   "Second": src/TestTaskSecondSGK/src/async_controller.cpp              *)
(*   "First" : src/TestTaskFirstSGK/src/elevator_controller.cpp:109-204    *)
(* They differ only in sync_get_data.  The variable unit says which copy   *)
(* is linked; it never changes.                                            *)
(*                                                                         *)
(* Every thread is a small state machine.  A critical section is two       *)
(* steps: the lock acquisition, and the body up to the release.  The       *)
(* condition variable is the set of consumers whose pc is "get_wait".      *)
(***************************************************************************)
EXTENDS Integers, Sequences, FiniteSets, TLC

\* ------------------------------------------------------------- bounds
MaxCapacity == 2
MaxCalls == 4

\* Requests the elevator is asked for in one run.
MaxRequests == 3

\* Lengths of the data handed to async_add_data, and min_bytes and max_bytes,
\* range up to the largest capacity.
MaxLen == MaxCapacity

\* ------------------------------------------------------------- threads
Producers == {"p1", "p2"}
Consumers == {"c1", "c2"}
Controllers == {"s1"}
Threads == Producers \cup Consumers \cup Controllers
NoThread == "none"

\* A junk byte: what a read of storage the vector does not own yields.
JunkBytes == {0}

VARIABLES
  unit,             \* which copy of the class is linked
  max_buffer_size_, \* const size_t max_buffer_size_
  buffer_,          \* ByteVec buffer_
  stopped_,         \* std::atomic<bool> stopped_
  mutex_,           \* owner of std::mutex mutex_, or NoThread
  pc,               \* each thread's position
  arg,              \* each thread's call arguments
  wake,             \* consumer: what ended its last wait ("timeout": the deadline)
  returned,         \* the last call that returned: its thread, operation and value
  calls_left,       \* calls_left the threads may still make, all together
  log,              \* history: bytes appended, in lock order
  got,              \* history: bytes returned by sync_get_data, in lock order
  health            \* "ok", or what undefined behaviour made of the process

\* ElevatorController (src/TestTaskFirstSGK): a single-threaded object.
VARIABLES
  current_floor_,     \* int current_floor_
  direction_,         \* Direction direction_
  internal_requests_, \* std::unordered_set<int> internal_requests_
  external_requests_, \* std::unordered_set<int> external_requests_
  last_call,          \* the last call made: its operation, argument and result
  requests_left       \* requests that may still be made

elevator == <<current_floor_, direction_, internal_requests_,
              external_requests_, last_call, requests_left>>

vars == <<unit, max_buffer_size_, buffer_, stopped_, mutex_, pc, arg,
          wake, returned, calls_left, log, got, health, elevator>>

\* ------------------------------------------------------------- values
Min2(a, b) == IF a < b THEN a ELSE b
Max2(a, b) == IF a > b THEN a ELSE b

NoArg == <<>>
\* What a return leaves in returned.
Return(t, op, v) == [thread |-> t, op |-> op, value |-> v]
NoReturn == Return(NoThread, "none", "none")

\* struct Result {data, error, dropped_bytes, buffer_size}
Result(d, e, dr, sz) ==
  [data |-> d, error |-> e, dropped_bytes |-> dr, buffer_size |-> sz]

\* The n bytes handed to the call made with k calls left: every byte of a
\* run is distinct.
MkData(k, n) == [i \in 1..n |-> k * 10 + i]

Drop(s, n) == SubSeq(s, n + 1, Len(s))

Waiters == {c \in Consumers : pc[c] = "get_wait"}

\* wait_until returned cv_status::timeout.
TimedOut(c) == wake[c] = "timeout"

\* The waiters a notify takes out of the wait set wake as notified.
Notified ==
  [c \in Consumers |->
     IF pc[c] = "get_wait" /\ pc'[c] = "get_woken" THEN "notified" ELSE wake[c]]

\* ------------------------------------------------------------- elevator values
kMinFloor == 1
kMaxFloor == 9

\* The int handed to a request: every floor, and the value next to the range
\* on either side.
Floors == (kMinFloor - 1)..(kMaxFloor + 1)

\* What a call leaves in last_call.
Call(op, floor, v) == [op |-> op, floor |-> floor, value |-> v]
NoCall == Call("none", 0, "none")

\* ElevatorController() noexcept = default, with the member initializers.
ElevatorWith(n) ==
  /\ current_floor_ = kMinFloor
  /\ direction_ = "IDLE"
  /\ internal_requests_ = {}
  /\ external_requests_ = {}
  /\ last_call = NoCall
  /\ requests_left = n

\* ------------------------------------------------------------- construction
ChannelWith(n) ==
  /\ unit \in {"Second", "First"}
  /\ max_buffer_size_ \in 0..MaxCapacity
  /\ buffer_ = <<>>
  /\ stopped_ = FALSE
  /\ mutex_ = NoThread
  /\ pc = [t \in Threads |-> "idle"]
  /\ arg = [t \in Threads |-> NoArg]
  /\ wake = [c \in Consumers |-> "none"]
  /\ returned = NoReturn
  /\ calls_left = n
  /\ log = <<>>
  /\ got = <<>>
  /\ health = "ok"

\* A channel, next to an elevator nobody uses.
InitWith(n) == ChannelWith(n) /\ ElevatorWith(0)

Init == InitWith(MaxCalls)

\* ------------------------------------------------------------- stop, start
stop_lock(s) ==
  /\ health = "ok" /\ pc[s] = "idle" /\ calls_left > 0
  /\ mutex_ = NoThread
  /\ mutex_' = s
  /\ pc' = [pc EXCEPT ![s] = "stop_cs"]
  /\ calls_left' = calls_left - 1
  /\ UNCHANGED <<elevator, unit, max_buffer_size_, buffer_, stopped_, arg, wake,
                 returned, log, got, health>>

stop_cs(s) ==
  /\ health = "ok" /\ pc[s] = "stop_cs"
  /\ stopped_' = TRUE
  /\ mutex_' = NoThread
  /\ pc' = [pc EXCEPT ![s] = "stop_notify"]
  /\ UNCHANGED <<elevator, unit, max_buffer_size_, buffer_, arg, wake, returned, calls_left,
                 log, got, health>>

\* A notify_one in the place of notify_all: one waiter leaves the wait set.
NotifyAllWakesOne(pcs) ==
  IF Waiters = {} THEN pcs
  ELSE [pcs EXCEPT ![CHOOSE w \in Waiters : TRUE] = "get_woken"]

\* cv_.notify_all(): every waiter leaves the wait set.
NotifyAll(pcs) == [t \in Threads |-> IF t \in Waiters THEN "get_woken" ELSE pcs[t]]

stop_notify(s) ==
  /\ health = "ok" /\ pc[s] = "stop_notify"
  /\ pc' = NotifyAll([pc EXCEPT ![s] = "idle"])
  /\ wake' = Notified
  /\ UNCHANGED <<elevator, unit, max_buffer_size_, buffer_, stopped_, mutex_, arg,
                 returned, calls_left, log, got, health>>

start_lock(s) ==
  /\ health = "ok" /\ pc[s] = "idle" /\ calls_left > 0
  /\ mutex_ = NoThread
  /\ mutex_' = s
  /\ pc' = [pc EXCEPT ![s] = "start_cs"]
  /\ calls_left' = calls_left - 1
  /\ UNCHANGED <<elevator, unit, max_buffer_size_, buffer_, stopped_, arg, wake,
                 returned, log, got, health>>

\* A start() that also empties the buffer.
start_cs_clears(s) ==
  /\ health = "ok" /\ pc[s] = "start_cs"
  /\ stopped_' = FALSE
  /\ buffer_' = <<>>
  /\ mutex_' = NoThread
  /\ pc' = NotifyAll([pc EXCEPT ![s] = "idle"])
  /\ wake' = Notified
  /\ UNCHANGED <<elevator, unit, max_buffer_size_, arg, returned, calls_left,
                 log, got, health>>

start_cs(s) ==
  /\ health = "ok" /\ pc[s] = "start_cs"
  /\ stopped_' = FALSE
  /\ mutex_' = NoThread
  /\ pc' = NotifyAll([pc EXCEPT ![s] = "idle"])
  /\ wake' = Notified
  /\ UNCHANGED <<elevator, unit, max_buffer_size_, buffer_, arg, returned, calls_left,
                 log, got, health>>

\* ------------------------------------------------------------- async_add_data
\* A check that also rejects data that fills the buffer exactly.
OverflowsWhenFull(size, n, cap) == size + n >= cap

\* buffer_.size() + data.size() > max_buffer_size_
Overflows(size, n, cap) == size + n > cap

\* An insert at buffer_.begin() instead of buffer_.end().
InsertAtBegin(buf, data) == data \o buf

\* buffer_.insert(buffer_.end(), data.begin(), data.end())
Insert(buf, data) == buf \o data

\* A notify_one that wakes nobody.
NotifyNobody(pcs, w) == pcs

\* cv_.notify_one(): one waiter, whichever, leaves the wait set; none if
\* nobody waits.
NotifyOne(pcs, w) == [pcs EXCEPT ![w] = "get_woken"]

\* A call that does not look at stopped_ before it takes the lock.
add_load_unchecked(p) ==
  /\ health = "ok" /\ pc[p] = "idle" /\ calls_left > 0
  /\ calls_left' = calls_left - 1
  /\ \E n \in 0..MaxLen :
       /\ pc' = [pc EXCEPT ![p] = "add_lock"]
       /\ arg' = [arg EXCEPT ![p] = MkData(calls_left, n)]
  /\ UNCHANGED <<elevator, unit, max_buffer_size_, buffer_, stopped_, mutex_, wake,
                 returned, log, got, health>>

\* The call, and its lock-free load of stopped_.
add_load(p) ==
  /\ health = "ok" /\ pc[p] = "idle" /\ calls_left > 0
  /\ calls_left' = calls_left - 1
  /\ \E n \in 0..MaxLen :
       IF stopped_
       THEN /\ returned' = Return(p, "async_add_data", "ControllerStopped")
            /\ UNCHANGED <<pc, arg>>
       ELSE /\ UNCHANGED returned
            /\ pc' = [pc EXCEPT ![p] = "add_lock"]
            /\ arg' = [arg EXCEPT ![p] = MkData(calls_left, n)]
  /\ UNCHANGED <<elevator, unit, max_buffer_size_, buffer_, stopped_, mutex_, wake,
                 log, got, health>>

add_lock(p) ==
  /\ health = "ok" /\ pc[p] = "add_lock"
  /\ mutex_ = NoThread
  /\ mutex_' = p
  /\ pc' = [pc EXCEPT ![p] = "add_cs"]
  /\ UNCHANGED <<elevator, unit, max_buffer_size_, buffer_, stopped_, arg, wake,
                 returned, calls_left, log, got, health>>

\* The overflow check and the insert, under the lock, up to its release.
add_cs(p) ==
  /\ health = "ok" /\ pc[p] = "add_cs"
  /\ mutex_' = NoThread
  /\ IF Overflows(Len(buffer_), Len(arg[p]), max_buffer_size_)
     THEN /\ returned' = Return(p, "async_add_data", "BufferOverflow")
          /\ pc' = [pc EXCEPT ![p] = "idle"]
          /\ arg' = [arg EXCEPT ![p] = NoArg]
          /\ UNCHANGED <<buffer_, log>>
     ELSE /\ buffer_' = Insert(buffer_, arg[p])
          /\ log' = log \o arg[p]
          /\ pc' = [pc EXCEPT ![p] = "add_notify"]
          /\ UNCHANGED <<returned, arg>>
  /\ UNCHANGED <<elevator, unit, max_buffer_size_, stopped_, wake, calls_left, got,
                 health>>

add_notify(p) ==
  /\ health = "ok" /\ pc[p] = "add_notify"
  /\ \/ /\ Waiters = {}
        /\ pc' = [pc EXCEPT ![p] = "idle"]
     \/ \E w \in Waiters : pc' = NotifyOne([pc EXCEPT ![p] = "idle"], w)
  /\ returned' = Return(p, "async_add_data", "NoError")
  /\ arg' = [arg EXCEPT ![p] = NoArg]
  /\ wake' = Notified
  /\ UNCHANGED <<elevator, unit, max_buffer_size_, buffer_, stopped_, mutex_, calls_left, log, got, health>>

\* ------------------------------------------------------------- sync_get_data
\* A predicate that asks for more than min_bytes bytes.
WaitPredicateStrict(stopped, size, min_bytes) == stopped \/ size > min_bytes

\* The wait predicate: stopped_ || buffer_.size() >= min_bytes
WaitPredicate(stopped, size, min_bytes) == stopped \/ size >= min_bytes

\* std::min(buffer_.size(), max_bytes)
BytesToTake(size, max_bytes) == Min2(size, max_bytes)

\* How many bytes the call moves out of the buffer.  "Second" raises the
\* count to min_bytes (actual_bytes); "First" takes bytes_to_take.
ActualBytes(u, size, min_bytes, max_bytes) ==
  IF u = "Second"
  THEN Max2(BytesToTake(size, max_bytes), min_bytes)
  ELSE BytesToTake(size, max_bytes)

\* The status returned with data.
TakeError(u, stopped) ==
  IF u = "Second" THEN "NoError"
  ELSE IF stopped THEN "ControllerStopped" ELSE "NoError"

\* The dropped_bytes field returned with data.
TakeDropped(u, taken) == IF u = "Second" THEN 0 ELSE taken

\* "First" rejects min_bytes > max_bytes before it locks; "Second" has no
\* such check.
RejectsArgs(u, min_bytes, max_bytes) == u = "First" /\ min_bytes > max_bytes

\* buffer_.size() read without the lock: a data race with a thread that is
\* inside a critical section on the buffer, and then any value.
UnlockedSizes ==
  IF mutex_ \in Producers \cup Consumers
  THEN 0..max_buffer_size_
  ELSE {Len(buffer_)}

\* "First": min_bytes > max_bytes, returned at once.
get_invalid(c) ==
  /\ health = "ok" /\ pc[c] = "idle" /\ calls_left > 0
  /\ \E mn \in 0..MaxLen, mx \in 0..MaxLen, sz \in UnlockedSizes :
       /\ RejectsArgs(unit, mn, mx)
       /\ returned' = Return(c, "sync_get_data", Result(<<>>, "InvalidArgs", 0, sz))
  /\ calls_left' = calls_left - 1
  /\ UNCHANGED <<elevator, unit, max_buffer_size_, buffer_, stopped_, mutex_, pc, arg,
                 wake, log, got, health>>

\* The call, up to std::unique_lock lock(mutex_) having the mutex.
get_lock(c) ==
  /\ health = "ok" /\ pc[c] = "idle" /\ calls_left > 0
  /\ mutex_ = NoThread
  /\ \E mn \in 0..MaxLen, mx \in 0..MaxLen :
       /\ ~RejectsArgs(unit, mn, mx)
       /\ arg' = [arg EXCEPT ![c] = [min_bytes |-> mn, max_bytes |-> mx]]
  /\ mutex_' = c
  /\ pc' = [pc EXCEPT ![c] = "get_cs"]
  /\ wake' = [wake EXCEPT ![c] = "none"]
  /\ calls_left' = calls_left - 1
  /\ UNCHANGED <<elevator, unit, max_buffer_size_, buffer_, stopped_, returned, log, got,
                 health>>

Pred(c) == WaitPredicate(stopped_, Len(buffer_), arg[c].min_bytes)

\* wait_for: the predicate is false and the deadline has not passed: the
\* thread releases the mutex and joins the wait set, atomically.
get_wait(c) ==
  /\ health = "ok" /\ pc[c] = "get_cs"
  /\ ~Pred(c) /\ ~TimedOut(c)
  /\ mutex_' = NoThread
  /\ pc' = [pc EXCEPT ![c] = "get_wait"]
  /\ UNCHANGED <<elevator, unit, max_buffer_size_, buffer_, stopped_, arg, wake,
                 returned, calls_left, log, got, health>>

\* The deadline passes while the thread waits.
cv_timeout(c) ==
  /\ health = "ok" /\ pc[c] = "get_wait"
  /\ pc' = [pc EXCEPT ![c] = "get_woken"]
  /\ wake' = [wake EXCEPT ![c] = "timeout"]
  /\ UNCHANGED <<elevator, unit, max_buffer_size_, buffer_, stopped_, mutex_, arg, returned,
                 calls_left, log, got, health>>

\* A spurious wakeup.
cv_spurious(c) ==
  /\ health = "ok" /\ pc[c] = "get_wait"
  /\ pc' = [pc EXCEPT ![c] = "get_woken"]
  /\ wake' = [wake EXCEPT ![c] = "spurious"]
  /\ UNCHANGED <<elevator, unit, max_buffer_size_, buffer_, stopped_, mutex_, arg,
                 returned, calls_left, log, got, health>>

\* A woken thread takes the mutex again before wait_until returns.
get_relock(c) ==
  /\ health = "ok" /\ pc[c] = "get_woken"
  /\ mutex_ = NoThread
  /\ mutex_' = c
  /\ pc' = [pc EXCEPT ![c] = "get_cs"]
  /\ UNCHANGED <<elevator, unit, max_buffer_size_, buffer_, stopped_, arg, wake,
                 returned, calls_left, log, got, health>>

\* A timeout that is reported without the predicate being evaluated again.
get_timeout_unchecked(c) ==
  /\ health = "ok" /\ pc[c] = "get_cs"
  /\ TimedOut(c)
  /\ returned' = Return(c, "sync_get_data", Result(<<>>, "Timeout", 0, Len(buffer_)))
  /\ mutex_' = NoThread
  /\ pc' = [pc EXCEPT ![c] = "idle"]
  /\ arg' = [arg EXCEPT ![c] = NoArg]
  /\ UNCHANGED <<elevator, unit, max_buffer_size_, buffer_, stopped_, wake, calls_left,
                 log, got, health>>

\* wait_for returned false: the deadline passed and the predicate, evaluated
\* once more, is false.
get_timeout(c) ==
  /\ health = "ok" /\ pc[c] = "get_cs"
  /\ ~Pred(c) /\ TimedOut(c)
  /\ returned' = Return(c, "sync_get_data", Result(<<>>, "Timeout", 0, Len(buffer_)))
  /\ mutex_' = NoThread
  /\ pc' = [pc EXCEPT ![c] = "idle"]
  /\ arg' = [arg EXCEPT ![c] = NoArg]
  /\ UNCHANGED <<elevator, unit, max_buffer_size_, buffer_, stopped_, wake, calls_left,
                 log, got, health>>

\* stopped_ && buffer_.empty()
get_stopped(c) ==
  /\ health = "ok" /\ pc[c] = "get_cs"
  /\ Pred(c)
  /\ stopped_ /\ buffer_ = <<>>
  /\ returned' = Return(c, "sync_get_data", Result(<<>>, "ControllerStopped", 0, 0))
  /\ mutex_' = NoThread
  /\ pc' = [pc EXCEPT ![c] = "idle"]
  /\ arg' = [arg EXCEPT ![c] = NoArg]
  /\ UNCHANGED <<elevator, unit, max_buffer_size_, buffer_, stopped_, wake, calls_left,
                 log, got, health>>

Taking(c) ==
  ActualBytes(unit, Len(buffer_), arg[c].min_bytes, arg[c].max_bytes)

\* The bytes are moved out of the head of the buffer and returned.
get_take(c) ==
  /\ health = "ok" /\ pc[c] = "get_cs"
  /\ Pred(c)
  /\ ~(stopped_ /\ buffer_ = <<>>)
  /\ Taking(c) <= Len(buffer_)
  /\ buffer_' = Drop(buffer_, Taking(c))
  /\ got' = got \o SubSeq(buffer_, 1, Taking(c))
  /\ returned' = Return(c, "sync_get_data",
                        Result(SubSeq(buffer_, 1, Taking(c)),
                               TakeError(unit, stopped_),
                               TakeDropped(unit, Taking(c)),
                               Len(buffer_')))
  /\ mutex_' = NoThread
  /\ pc' = [pc EXCEPT ![c] = "idle"]
  /\ arg' = [arg EXCEPT ![c] = NoArg]
  /\ UNCHANGED <<elevator, unit, max_buffer_size_, stopped_, wake, calls_left, log,
                 health>>

\* buffer_.begin() + actual_bytes lies past buffer_.end(): undefined
\* behaviour.  Either the process dies, or the copy reads past the end and
\* erase leaves a vector whose size, end - begin, has wrapped: a size beyond
\* any capacity, which a junk buffer of max_buffer_size_ + 1 bytes stands
\* for.  Nothing is modelled after either.
get_take_past_end(c) ==
  /\ health = "ok" /\ pc[c] = "get_cs"
  /\ Pred(c)
  /\ ~(stopped_ /\ buffer_ = <<>>)
  /\ Taking(c) > Len(buffer_)
  /\ \/ /\ health' = "aborted"
        /\ UNCHANGED <<buffer_, got, returned, mutex_, pc, arg>>
     \/ \E j \in JunkBytes :
          /\ health' = "corrupt"
          /\ buffer_' = [i \in 1..(max_buffer_size_ + 1) |-> j]
          /\ got' = got \o buffer_
          /\ returned' = Return(c, "sync_get_data",
                 Result(buffer_ \o [i \in 1..(Taking(c) - Len(buffer_)) |-> j],
                        TakeError(unit, stopped_),
                        TakeDropped(unit, Taking(c)),
                        Len(buffer_')))
          /\ mutex_' = NoThread
          /\ pc' = [pc EXCEPT ![c] = "idle"]
          /\ arg' = [arg EXCEPT ![c] = NoArg]
  /\ UNCHANGED <<elevator, unit, max_buffer_size_, stopped_, wake, calls_left, log>>

\* ------------------------------------------------------------- elevator
channel == <<unit, max_buffer_size_, buffer_, stopped_, mutex_, pc, arg,
             wake, returned, calls_left, log, got, health>>

\* A check that lets the floor below kMinFloor through.
validateFloorFromZero(floor) ==
  IF floor < kMinFloor - 1 \/ floor > kMaxFloor THEN "InvalidFloor" ELSE "ok"

\* if (floor < kMinFloor || floor > kMaxFloor) return unexpected(InvalidFloor)
validateFloor(floor) ==
  IF floor < kMinFloor \/ floor > kMaxFloor THEN "InvalidFloor" ELSE "ok"

hasRequests(internal, external) == internal # {} \/ external # {}

hasRequestsAbove(floor, internal, external) ==
  \E f \in internal \cup external : f > floor

hasRequestsBelow(floor, internal, external) ==
  \E f \in internal \cup external : f < floor

\* An updateDirection that does not erase the requests for the current floor.
updateDirectionNoErase(floor, dir, internal, external) ==
  [internal |-> internal, external |-> external,
   direction |->
     IF ~hasRequests(internal, external) THEN "IDLE"
     ELSE IF dir = "UP"
          THEN IF hasRequestsAbove(floor, internal, external)
               THEN "UP" ELSE "DOWN"
     ELSE IF dir = "DOWN"
          THEN IF hasRequestsBelow(floor, internal, external)
               THEN "DOWN" ELSE "UP"
     ELSE IF hasRequestsAbove(floor, internal, external) THEN "UP"
     ELSE IF hasRequestsBelow(floor, internal, external) THEN "DOWN"
     ELSE dir]

\* An updateDirection that sends an idle elevator down whatever is pending.
updateDirectionIdleDown(floor, dir, internal, external) ==
  LET i == internal \ {floor}
      e == external \ {floor}
  IN [internal |-> i, external |-> e,
      direction |->
        IF ~hasRequests(i, e) THEN "IDLE"
        ELSE IF dir = "UP"
             THEN IF hasRequestsAbove(floor, i, e) THEN "UP" ELSE "DOWN"
        ELSE IF dir = "DOWN"
             THEN IF hasRequestsBelow(floor, i, e) THEN "DOWN" ELSE "UP"
        ELSE "DOWN"]

\* An updateDirection that turns round as soon as a request lies behind.
updateDirectionTurnsEarly(floor, dir, internal, external) ==
  LET i == internal \ {floor}
      e == external \ {floor}
  IN [internal |-> i, external |-> e,
      direction |->
        IF ~hasRequests(i, e) THEN "IDLE"
        ELSE IF dir = "UP"
             THEN IF hasRequestsBelow(floor, i, e) THEN "DOWN" ELSE "UP"
        ELSE IF dir = "DOWN"
             THEN IF hasRequestsAbove(floor, i, e) THEN "UP" ELSE "DOWN"
        ELSE IF hasRequestsAbove(floor, i, e) THEN "UP"
        ELSE IF hasRequestsBelow(floor, i, e) THEN "DOWN"
        ELSE dir]

\* An updateDirection that never turns round.
updateDirectionNoTurn(floor, dir, internal, external) ==
  LET i == internal \ {floor}
      e == external \ {floor}
  IN [internal |-> i, external |-> e,
      direction |->
        IF ~hasRequests(i, e) THEN "IDLE"
        ELSE IF dir = "IDLE"
             THEN IF hasRequestsAbove(floor, i, e) THEN "UP"
                  ELSE IF hasRequestsBelow(floor, i, e) THEN "DOWN" ELSE dir
             ELSE dir]

\* updateDirection(): the requests for the current floor are erased; what it
\* leaves in the two sets and in direction_.
updateDirection(floor, dir, internal, external) ==
  LET i == internal \ {floor}
      e == external \ {floor}
  IN [internal |-> i, external |-> e,
      direction |->
        IF ~hasRequests(i, e) THEN "IDLE"
        ELSE IF dir = "UP"
             THEN IF hasRequestsAbove(floor, i, e) THEN "UP" ELSE "DOWN"
        ELSE IF dir = "DOWN"
             THEN IF hasRequestsBelow(floor, i, e) THEN "DOWN" ELSE "UP"
        ELSE IF hasRequestsAbove(floor, i, e) THEN "UP"
        ELSE IF hasRequestsBelow(floor, i, e) THEN "DOWN"
        ELSE dir]

addInternalRequest ==
  /\ requests_left > 0
  /\ requests_left' = requests_left - 1
  /\ \E floor \in Floors :
       /\ last_call' = Call("addInternalRequest", floor, validateFloor(floor))
       /\ IF validateFloor(floor) # "ok"
          THEN UNCHANGED <<current_floor_, direction_, internal_requests_,
                           external_requests_>>
          ELSE LET u == updateDirection(current_floor_, direction_,
                                        internal_requests_ \cup {floor},
                                        external_requests_)
               IN /\ internal_requests_' = u.internal
                  /\ external_requests_' = u.external
                  /\ direction_' = u.direction
                  /\ UNCHANGED current_floor_
  /\ UNCHANGED channel

addExternalRequest ==
  /\ requests_left > 0
  /\ requests_left' = requests_left - 1
  /\ \E floor \in Floors :
       /\ last_call' = Call("addExternalRequest", floor, validateFloor(floor))
       /\ IF validateFloor(floor) # "ok"
          THEN UNCHANGED <<current_floor_, direction_, internal_requests_,
                           external_requests_>>
          ELSE LET u == updateDirection(current_floor_, direction_,
                                        internal_requests_,
                                        external_requests_ \cup {floor})
               IN /\ internal_requests_' = u.internal
                  /\ external_requests_' = u.external
                  /\ direction_' = u.direction
                  /\ UNCHANGED current_floor_
  /\ UNCHANGED channel

\* A step that goes up whatever the direction and checks no bound.
NextFloorUp(floor, dir) == floor + 1

\* A step that goes two floors when it can.
NextFloorSkips(floor, dir) ==
  IF dir = "UP" /\ floor < kMaxFloor - 1 THEN floor + 2
  ELSE IF dir = "UP" /\ floor < kMaxFloor THEN floor + 1
  ELSE IF dir = "DOWN" /\ floor > kMinFloor THEN floor - 1
  ELSE floor

\* ++current_floor_ when UP below kMaxFloor, --current_floor_ when DOWN
\* above kMinFloor.
NextFloor(floor, dir) ==
  IF dir = "UP" /\ floor < kMaxFloor THEN floor + 1
  ELSE IF dir = "DOWN" /\ floor > kMinFloor THEN floor - 1
  ELSE floor

move ==
  /\ last_call' = Call("move", 0, "void")
  /\ IF direction_ = "IDLE"
     THEN UNCHANGED <<current_floor_, direction_, internal_requests_,
                      external_requests_>>
     ELSE LET f == NextFloor(current_floor_, direction_)
              u == updateDirection(f, direction_,
                     (internal_requests_ \ {current_floor_}) \ {f},
                     (external_requests_ \ {current_floor_}) \ {f})
          IN /\ current_floor_' = f
             /\ internal_requests_' = u.internal
             /\ external_requests_' = u.external
             /\ direction_' = u.direction
  /\ UNCHANGED <<requests_left, channel>>

\* ------------------------------------------------------------- threads' steps
ProducerStep(p) == add_load(p) \/ add_lock(p) \/ add_cs(p) \/ add_notify(p)

ConsumerStep(c) ==
  \/ get_invalid(c) \/ get_lock(c) \/ get_wait(c)
  \/ cv_timeout(c) \/ cv_spurious(c) \/ get_relock(c)
  \/ get_timeout(c) \/ get_stopped(c) \/ get_take(c) \/ get_take_past_end(c)

StopStep(s) == stop_lock(s) \/ stop_cs(s) \/ stop_notify(s)

StartStep(s) == start_lock(s) \/ start_cs(s)

\* One producer, one consumer and one thread that stops and restarts.
Next ==
  \/ ProducerStep("p1")
  \/ ConsumerStep("c1")
  \/ StopStep("s1")
  \/ StartStep("s1")

Spec == Init /\ [][Next]_vars

\* Two producers, one consumer and one thread that stops and restarts, on a
\* channel constructed with the largest capacity: two appends of every length
\* from 0 to the capacity fit, fill the buffer exactly or overflow it.
InitProducers == InitWith(MaxCalls - 1) /\ max_buffer_size_ = MaxCapacity

NextProducers ==
  \/ \E p \in Producers : ProducerStep(p)
  \/ ConsumerStep("c1")
  \/ StopStep("s1")
  \/ StartStep("s1")

SpecProducers == InitProducers /\ [][NextProducers]_vars

\* Two consumers and one thread that stops the channel, on a buffer that
\* stays empty: no producer and no restart, so that the capacity plays no
\* part and is the largest.  A thread that can take a step
\* of a call it is in, other than waiting for its deadline, eventually takes
\* it; nothing makes a deadline pass, a spurious wakeup happen or a new call
\* start.
InitStop == InitWith(MaxCalls - 1) /\ max_buffer_size_ = MaxCapacity

NextStop ==
  \/ \E c \in Consumers :
       \/ get_invalid(c) \/ get_lock(c) \/ get_wait(c)
       \/ cv_timeout(c) \/ cv_spurious(c) \/ get_relock(c)
       \/ get_timeout(c) \/ get_stopped(c) \/ get_take(c)
  \/ StopStep("s1")

FairStop ==
  /\ WF_vars(stop_cs("s1")) /\ WF_vars(stop_notify("s1"))
  /\ \A c \in Consumers :
       /\ WF_vars(get_wait(c)) /\ WF_vars(get_relock(c))
       /\ WF_vars(get_timeout(c)) /\ WF_vars(get_stopped(c))
       /\ WF_vars(get_take(c))

SpecStop == InitStop /\ [][NextStop]_vars /\ FairStop

\* One producer, two consumers and one thread that stops and restarts, on a
\* channel constructed with the largest capacity.  A thread inside a call
\* keeps running: it eventually takes any step it can take, other than
\* waiting for its deadline.  Nothing makes a deadline pass, a spurious wakeup
\* happen or a new call start.
InitWaiters == InitWith(MaxCalls - 1) /\ max_buffer_size_ = MaxCapacity

NextWaiters ==
  \/ ProducerStep("p1")
  \/ \E c \in Consumers : ConsumerStep(c)
  \/ StopStep("s1")
  \/ StartStep("s1")

FairWaiters ==
  /\ WF_vars(stop_cs("s1")) /\ WF_vars(stop_notify("s1"))
  /\ WF_vars(start_cs("s1"))
  /\ WF_vars(add_lock("p1")) /\ WF_vars(add_cs("p1"))
  /\ WF_vars(add_notify("p1"))
  /\ \A c \in Consumers :
       /\ WF_vars(get_wait(c)) /\ WF_vars(get_relock(c))
       /\ WF_vars(get_timeout(c)) /\ WF_vars(get_stopped(c))
       /\ WF_vars(get_take(c)) /\ WF_vars(get_take_past_end(c))

SpecWaiters == InitWaiters /\ [][NextWaiters]_vars /\ FairWaiters

\* One producer and one consumer on a channel of the largest capacity that
\* nobody stops.  A thread inside a call keeps running; nothing makes a
\* deadline pass, a spurious wakeup happen or a new call start.
InitPair == InitWith(MaxCalls - 1) /\ max_buffer_size_ = MaxCapacity

NextPair ==
  \/ ProducerStep("p1")
  \/ get_invalid("c1") \/ get_lock("c1") \/ get_wait("c1")
  \/ cv_timeout("c1") \/ cv_spurious("c1") \/ get_relock("c1")
  \/ get_timeout("c1") \/ get_take("c1")

FairPair ==
  /\ WF_vars(add_lock("p1")) /\ WF_vars(add_cs("p1"))
  /\ WF_vars(add_notify("p1"))
  /\ WF_vars(get_wait("c1")) /\ WF_vars(get_relock("c1"))
  /\ WF_vars(get_timeout("c1")) /\ WF_vars(get_take("c1"))

SpecPair == InitPair /\ [][NextPair]_vars /\ FairPair

\* The elevator, next to a channel nobody uses: requests and moves in any
\* order.  move() keeps being called.
InitElevator ==
  /\ ChannelWith(0) /\ unit = "First" /\ max_buffer_size_ = MaxCapacity
  /\ ElevatorWith(MaxRequests)

NextElevator == addInternalRequest \/ addExternalRequest \/ move

SpecElevator == InitElevator /\ [][NextElevator]_vars /\ WF_vars(move)

\* Requests not served yet.
Pending == internal_requests_ \cup external_requests_

\* ------------------------------------------------------------- claims
\* C1: in every reachable state the buffer holds at most max_buffer_size_
\* bytes (and never fewer than 0, which a sequence cannot).
C1_BufferWithinCapacity == Len(buffer_) <= max_buffer_size_

\* C2: the step of async_add_data that leaves its critical section either
\* finds length(buffer) + length(data) > capacity, and then leaves the buffer
\* as it is and returns BufferOverflow, or appends the whole of data, so that
\* the buffer grows by exactly length(data), and the call then returns
\* NoError without touching the buffer again.
C2_AppendAllOrNothing ==
  [][\A p \in Producers :
       /\ (pc[p] = "add_cs" /\ pc'[p] # "add_cs") =>
            IF Len(buffer_) + Len(arg[p]) > max_buffer_size_
            THEN /\ buffer_' = buffer_
                 /\ pc'[p] = "idle"
                 /\ returned' = Return(p, "async_add_data", "BufferOverflow")
            ELSE /\ buffer_' = buffer_ \o arg[p]
                 /\ Len(buffer_') = Len(buffer_) + Len(arg[p])
                 /\ pc'[p] = "add_notify"
       /\ (pc[p] = "add_notify" /\ pc'[p] # "add_notify") =>
            /\ buffer_' = buffer_
            /\ pc'[p] = "idle"
            /\ returned' = Return(p, "async_add_data", "NoError")]_vars

\* C2 witness: a call was rejected although the buffer had room for a prefix
\* of its data.
C2_Witness ==
  /\ returned.op = "async_add_data" /\ returned.value = "BufferOverflow"
  /\ buffer_ # <<>> /\ Len(buffer_) < max_buffer_size_

\* C3: with one producer, a sync_get_data on a channel that is not stopped,
\* called with min_bytes = the number of bytes appended and not yet taken and
\* max_bytes >= min_bytes, returns NoError with exactly those bytes, in the
\* order of the calls that appended them, and leaves the buffer empty.
C3_TakeReturnsAppended ==
  [][\A c \in Consumers :
       ( /\ pc[c] = "get_cs" /\ pc'[c] # "get_cs"
         /\ ~stopped_
         /\ arg[c].min_bytes = Len(log) - Len(got)
         /\ arg[c].max_bytes >= arg[c].min_bytes ) =>
         /\ pc'[c] = "idle"
         /\ returned'.thread = c
         /\ returned'.value.error = "NoError"
         /\ returned'.value.data = SubSeq(log, Len(got) + 1, Len(log))
         /\ returned'.value.buffer_size = 0
         /\ buffer_' = <<>>]_vars

\* C3 witness: one call returned the bytes of two appends.
C3_Witness ==
  /\ returned.op = "sync_get_data"
  /\ returned.value.error = "NoError"
  /\ Len(returned.value.data) = 2
  /\ returned.value.data[1] \div 10 > returned.value.data[2] \div 10
  /\ returned.value.data = log
  /\ buffer_ = <<>>

\* C4: sync_get_data returns Timeout only when its deadline has passed and,
\* at the return, the channel is not stopped and holds fewer than min_bytes
\* bytes; it then returns no data; and a call whose deadline has passed with
\* the predicate false returns Timeout.  No step of a call that does not take
\* bytes changes the buffer.
C4_TimeoutOnlyWhenPredicateFalse ==
  [][\A c \in Consumers :
       /\ ( /\ pc[c] = "get_cs" /\ pc'[c] = "idle"
            /\ returned'.value.error = "Timeout" ) =>
            /\ TimedOut(c)
            /\ ~stopped_
            /\ Len(buffer_) < arg[c].min_bytes
            /\ returned'.value.data = <<>>
            /\ buffer_' = buffer_
       /\ ( /\ pc[c] = "get_cs" /\ pc'[c] # "get_cs"
            /\ TimedOut(c) /\ ~stopped_
            /\ Len(buffer_) < arg[c].min_bytes ) =>
            /\ pc'[c] = "idle"
            /\ returned' = Return(c, "sync_get_data",
                                  Result(<<>>, "Timeout", 0, Len(buffer_)))
       /\ (pc[c] # pc'[c] /\ pc'[c] # "idle") => buffer_' = buffer_]_vars

\* C4 witness: a call timed out on a buffer that held a byte, fewer than it
\* asked for.
C4_Witness ==
  /\ returned.op = "sync_get_data"
  /\ returned.value.error = "Timeout"
  /\ returned.value.buffer_size = 1
  /\ Len(buffer_) = 1

\* C5: a sync_get_data call that is blocked (on the empty buffer, with
\* min_bytes > 0) when stop() has set the stopped flag eventually returns
\* ControllerStopped with no data, also when no deadline ever passes.
C5_StopWakesWaiter ==
  \A c \in Consumers :
    (pc[c] = "get_wait" /\ stopped_)
      ~> ( /\ pc[c] = "idle"
           /\ returned = Return(c, "sync_get_data",
                                Result(<<>>, "ControllerStopped", 0, 0)) )

\* C5 witness: a call that stop()'s notify_all woke, not its deadline,
\* returned ControllerStopped with no data.
C5_Witness ==
  \E c \in Consumers :
    /\ wake[c] = "notified"
    /\ pc[c] = "idle"
    /\ returned = Return(c, "sync_get_data",
                         Result(<<>>, "ControllerStopped", 0, 0))

\* C6: on a stopped channel, a sync_get_data that finds the buffer empty
\* returns ControllerStopped with no data, and one called with min_bytes = 0
\* and max_bytes >= the k > 0 buffered bytes returns exactly those k bytes
\* with status ControllerStopped, leaving the buffer empty.
C6_DrainAfterStop ==
  [][\A c \in Consumers :
       (pc[c] = "get_cs" /\ pc'[c] # "get_cs" /\ stopped_) =>
         IF buffer_ = <<>>
         THEN /\ returned'.thread = c
              /\ returned'.value.error = "ControllerStopped"
              /\ returned'.value.data = <<>>
         ELSE (arg[c].min_bytes = 0 /\ arg[c].max_bytes >= Len(buffer_)) =>
                /\ returned'.thread = c
                /\ returned'.value.error = "ControllerStopped"
                /\ returned'.value.data = buffer_
                /\ buffer_' = <<>>]_vars

\* C7: a sync_get_data call with min_bytes > max_bytes never gets past its
\* argument check: it never holds the lock, waits or is woken, and what it
\* returns is InvalidArgs with no data.
C7_InvalidArgsRejected ==
  /\ \A c \in Consumers :
       pc[c] \in {"get_cs", "get_wait", "get_woken"} =>
         arg[c].min_bytes <= arg[c].max_bytes
  /\ (returned.op = "sync_get_data" /\ returned.value.error = "InvalidArgs") =>
       returned.value.data = <<>>

\* C8: a sync_get_data called with min_bytes <= max_bytes that returns
\* NoError returns at least min_bytes bytes,
\* and does not return NoError from a stopped channel that held fewer than
\* min_bytes bytes.
C8_NoErrorMeansMinBytes ==
  [][\A c \in Consumers :
       ( /\ pc[c] = "get_cs" /\ pc'[c] = "idle"
         /\ arg[c].min_bytes <= arg[c].max_bytes
         /\ returned'.value.error = "NoError" ) =>
         /\ Len(returned'.value.data) >= arg[c].min_bytes
         /\ ~(stopped_ /\ Len(buffer_) < arg[c].min_bytes)]_vars

\* C9: a sync_get_data called with min_bytes <= max_bytes that finds its wait
\* predicate true, and not a stopped empty buffer, returns: it moves exactly
\* min(length(buffer), max_bytes) bytes out of the head of the buffer, returns
\* them, and reports the length the buffer then has.
C9_TakesMinOfSizeAndMax ==
  [][\A c \in Consumers :
       ( /\ pc[c] = "get_cs"
         /\ arg[c].min_bytes <= arg[c].max_bytes
         /\ stopped_ \/ Len(buffer_) >= arg[c].min_bytes
         /\ ~(stopped_ /\ buffer_ = <<>>)
         /\ health' # health \/ pc'[c] # "get_cs" ) =>
         LET n == IF Len(buffer_) < arg[c].max_bytes
                  THEN Len(buffer_) ELSE arg[c].max_bytes
         IN /\ health' = "ok"
            /\ pc'[c] = "idle"
            /\ returned'.thread = c
            /\ returned'.value.data = SubSeq(buffer_, 1, n)
            /\ buffer_' = SubSeq(buffer_, n + 1, Len(buffer_))
            /\ returned'.value.buffer_size = Len(buffer_')]_vars

\* C10: every Result returned by sync_get_data has dropped_bytes = 0.
C10_NothingDropped ==
  returned.op = "sync_get_data" => returned.value.dropped_bytes = 0

\* C11: an async_add_data call made while the stopped flag is set (stop() has
\* stored it and no start() has cleared it) returns ControllerStopped at once
\* and leaves the buffer as it is, whatever the length of its data and the
\* free capacity: the call never reaches the lock.
C11_AddAfterStopRejected ==
  [][\A p \in Producers :
       ( /\ stopped_ /\ pc[p] = "idle"
         /\ calls_left' = calls_left - 1
         /\ \/ pc'[p] # "idle"
            \/ pc' = pc /\ returned'.thread = p ) =>
         /\ pc'[p] = "idle"
         /\ returned' = Return(p, "async_add_data", "ControllerStopped")
         /\ buffer_' = buffer_
         /\ log' = log]_vars

\* C11 witness: a call was rejected as ControllerStopped on a stopped channel
\* whose buffer holds bytes and has room left.
C11_Witness ==
  /\ returned.op = "async_add_data" /\ returned.value = "ControllerStopped"
  /\ stopped_
  /\ buffer_ # <<>> /\ Len(buffer_) < max_buffer_size_

\* C12: a sync_get_data call with min_bytes = 0 that holds the lock leaves
\* its critical section by returning, never by joining the wait set, and what
\* it returns is never Timeout; on a channel that is not stopped it returns
\* NoError with the min(length(buffer), max_bytes) bytes at the head of the
\* buffer, none if the buffer is empty, and removes them from the buffer.
C12_ZeroMinNeverBlocks ==
  [][\A c \in Consumers :
       ( /\ pc[c] = "get_cs" /\ arg[c].min_bytes = 0
         /\ pc'[c] # "get_cs" \/ health' # health ) =>
         LET n == IF Len(buffer_) < arg[c].max_bytes
                  THEN Len(buffer_) ELSE arg[c].max_bytes
         IN /\ health' = "ok"
            /\ wake[c] = "none"
            /\ pc'[c] = "idle"
            /\ returned'.thread = c
            /\ returned'.value.error # "Timeout"
            /\ ~stopped_ =>
                 /\ returned'.value.error = "NoError"
                 /\ returned'.value.data = SubSeq(buffer_, 1, n)
                 /\ buffer_' = SubSeq(buffer_, n + 1, Len(buffer_))]_vars

\* C12 witness: a call with min_bytes = 0 returned NoError with no bytes from
\* an empty buffer without having waited.
C12_Witness ==
  \E c \in Consumers :
    /\ returned = Return(c, "sync_get_data", Result(<<>>, "NoError", 0, 0))
    /\ wake[c] = "none"
    /\ ~stopped_ /\ buffer_ = <<>> /\ log = <<>>

\* C13: stop() sets the stopped flag and changes nothing else but its own
\* position and the mutex, so that a stop() on a stopped channel leaves the
\* flag as the first stop() did; it never changes the buffer; its notify_all
\* takes every waiter out of the wait set; only start() clears the flag; and
\* every sync_get_data call (with min_bytes <= max_bytes) that is blocked
\* when the flag is set returns, with no deadline passing, unless a start()
\* clears the flag first.
C13_StopIdempotentWakesAll ==
  /\ [][\A s \in Controllers :
          /\ (pc[s] = "stop_cs" /\ pc'[s] # "stop_cs") =>
               /\ stopped_'
               /\ UNCHANGED <<buffer_, arg, wake, returned, log, got, health>>
               /\ \A t \in Threads \ {s} : pc'[t] = pc[t]
          /\ (pc[s] = "stop_notify" /\ pc'[s] # "stop_notify") =>
               /\ UNCHANGED <<buffer_, stopped_, mutex_, arg, returned, log,
                              got, health>>
               /\ \A c \in Consumers : pc[c] = "get_wait" => pc'[c] = "get_woken"
          /\ (stopped_ /\ ~stopped_') => pc[s] = "start_cs"]_vars
  /\ \A c \in Consumers :
       ( /\ pc[c] = "get_wait" /\ stopped_
         /\ arg[c].min_bytes <= arg[c].max_bytes )
         ~> (pc[c] = "idle" \/ ~stopped_)

\* C14: no step of start() (nor of stop()) changes the buffer, and the step
\* of start() that leaves its critical section clears the stopped flag; an
\* async_add_data call made while the flag is clear is not rejected as
\* stopped, and once it holds the lock its data is appended whenever it fits;
\* a sync_get_data (min_bytes <= max_bytes) that finds the flag clear and at
\* least min_bytes bytes returns NoError with the bytes at the head of the
\* buffer, in the order they are buffered.
C14_StartKeepsBuffer ==
  [][/\ \A s \in Controllers :
          /\ pc'[s] # pc[s] =>
               UNCHANGED <<buffer_, log, got, returned, arg, health>>
          /\ (pc[s] = "start_cs" /\ pc'[s] # "start_cs") => ~stopped_'
     /\ \A p \in Producers :
          /\ ( /\ ~stopped_ /\ pc[p] = "idle"
               /\ calls_left' = calls_left - 1
               /\ \/ pc'[p] # "idle"
                  \/ pc' = pc /\ returned'.thread = p ) =>
               pc'[p] = "add_lock"
          /\ ( /\ pc[p] = "add_cs" /\ pc'[p] # "add_cs"
               /\ Len(buffer_) + Len(arg[p]) <= max_buffer_size_ ) =>
               buffer_' = buffer_ \o arg[p]
     /\ \A c \in Consumers :
          ( /\ pc[c] = "get_cs" /\ pc'[c] # "get_cs"
            /\ ~stopped_
            /\ arg[c].min_bytes <= arg[c].max_bytes
            /\ Len(buffer_) >= arg[c].min_bytes ) =>
            LET n == IF Len(buffer_) < arg[c].max_bytes
                     THEN Len(buffer_) ELSE arg[c].max_bytes
            IN /\ returned'.thread = c
               /\ returned'.value.error = "NoError"
               /\ returned'.value.data = SubSeq(buffer_, 1, n)]_vars

\* C14 witness: the last call to return was an async_add_data rejected as
\* ControllerStopped, the flag has been cleared since, by a start(), and the
\* buffer still holds every byte appended before.
C14_Witness ==
  /\ returned.op = "async_add_data" /\ returned.value = "ControllerStopped"
  /\ ~stopped_
  /\ \A t \in Threads : pc[t] = "idle"
  /\ buffer_ # <<>> /\ buffer_ = log

\* C15: no channel of capacity 0 is ever in use: on a channel constructed
\* with max_buffer_size = 0 no call is ever under way and none has returned.
C15_NoZeroCapacityChannel ==
  max_buffer_size_ = 0 =>
    /\ \A t \in Threads : pc[t] = "idle"
    /\ returned = NoReturn

\* C16: an addInternalRequest or addExternalRequest with floor < 1 or
\* floor > 9 returns InvalidFloor and leaves the current floor, the direction
\* and both request sets as they are; with 1 <= floor <= 9 it succeeds, and
\* the floor, unless the elevator is at it, is then in the set the call is for.
C16_InvalidFloorRejected ==
  [][requests_left' # requests_left =>
       /\ last_call'.op \in {"addInternalRequest", "addExternalRequest"}
       /\ IF last_call'.floor < 1 \/ last_call'.floor > 9
          THEN /\ last_call'.value = "InvalidFloor"
               /\ UNCHANGED <<current_floor_, direction_, internal_requests_,
                              external_requests_>>
          ELSE /\ last_call'.value = "ok"
               /\ current_floor_' = current_floor_
               /\ last_call'.floor # current_floor_ =>
                    IF last_call'.op = "addInternalRequest"
                    THEN last_call'.floor \in internal_requests_'
                    ELSE last_call'.floor \in external_requests_']_vars

\* C16 witness: a request for floor 10 was rejected while the elevator was
\* on its way down.
C16_Witness ==
  /\ last_call = Call("addExternalRequest", 10, "InvalidFloor")
  /\ direction_ = "DOWN" /\ current_floor_ > 1
  /\ Pending # {}

\* C17: with move() called again and again, once no request is added any
\* more the elevator ends IDLE with no request pending, and a floor leaves
\* the request sets only with the elevator at it: every requested floor is
\* eventually reached and removed.  A
\* request for floor f made while the elevator is idle at floor c with no
\* request pending leaves f alone pending (nothing when f = c); and while one
\* floor f alone is pending every move() brings the elevator exactly one
\* floor nearer to f, keeps f pending until the elevator is at f, and then
\* leaves nothing pending and the elevator IDLE: f is served after exactly
\* |f - c| moves.
C17_ServesEveryRequest ==
  /\ <>[](Pending = {} /\ direction_ = "IDLE")
  /\ [][LET Dist(a, b) == IF a < b THEN b - a ELSE a - b
        IN /\ \A f \in Pending : f \notin Pending' => current_floor_' = f
           /\ ( /\ requests_left' # requests_left
                /\ Pending = {} /\ direction_ = "IDLE"
                /\ last_call'.value = "ok" ) =>
                /\ Pending' = {last_call'.floor} \ {current_floor_}
                /\ current_floor_' = current_floor_
                /\ (Pending' = {}) <=> (direction_' = "IDLE")
           /\ \A f \in Pending :
                (Pending = {f} /\ requests_left' = requests_left) =>
                  /\ Dist(current_floor_', f) = Dist(current_floor_, f) - 1
                  /\ IF current_floor_' = f
                     THEN Pending' = {} /\ direction_' = "IDLE"
                     ELSE Pending' = {f} /\ direction_' = direction_]_vars

\* C17 witness: the only request made was for the top floor, and the
\* elevator, which started at floor 1, is there, IDLE, with nothing pending.
C17_Witness ==
  /\ requests_left = MaxRequests - 1
  /\ last_call.op = "move"
  /\ current_floor_ = kMaxFloor
  /\ direction_ = "IDLE" /\ Pending = {}

\* C18: in every reachable state a move() moves the elevator up exactly one
\* floor when the direction is UP and down exactly one floor when it is
\* DOWN, and leaves the floor, the direction and both request sets as they
\* are when the direction is IDLE.
C18_MoveByOne ==
  [][(last_call'.op = "move" /\ requests_left' = requests_left) =>
       /\ direction_ = "UP" => current_floor_' = current_floor_ + 1
       /\ direction_ = "DOWN" => current_floor_' = current_floor_ - 1
       /\ direction_ = "IDLE" =>
            UNCHANGED <<current_floor_, direction_, internal_requests_,
                        external_requests_>>]_vars

\* C18 witness: the elevator went up to the top floor, turned round and has
\* moved one floor down.
C18_Witness ==
  /\ last_call.op = "move"
  /\ current_floor_ = kMaxFloor - 1
  /\ direction_ = "DOWN"

\* C19: with one producer and one consumer, a sync_get_data call that is
\* blocked while the buffer holds at least min_bytes bytes, which an
\* async_add_data has appended since the call went to sleep, wakes and
\* returns NoError with at least min_bytes bytes, also when no deadline ever
\* passes: the producer's notify_one cannot be lost.
C19_NoLostWakeup ==
  \A c \in Consumers :
    (pc[c] = "get_wait" /\ Len(buffer_) >= arg[c].min_bytes)
      ~> ( /\ pc[c] = "idle"
           /\ returned.thread = c
           /\ returned.value.error = "NoError"
           /\ returned.value.data # <<>> )

\* C19 witness: a call that asked for two bytes was woken by notify_one and
\* returned NoError with two bytes that two appends brought.
C19_Witness ==
  \E c \in Consumers :
    /\ wake[c] = "notified"
    /\ pc[c] = "idle"
    /\ returned.thread = c
    /\ returned.value.error = "NoError"
    /\ Len(returned.value.data) = 2
    /\ returned.value.data[1] \div 10 # returned.value.data[2] \div 10

\* C20: with two consumers, a sync_get_data call (min_bytes <= max_bytes)
\* that is blocked while the buffer holds at least its min_bytes bytes is
\* woken, with no deadline passing, unless the other consumer takes bytes
\* first and makes its condition false again.
C20_NoWaiterStarved ==
  \A c \in Consumers :
    ( /\ pc[c] = "get_wait"
      /\ arg[c].min_bytes <= arg[c].max_bytes
      /\ Len(buffer_) >= arg[c].min_bytes )
      ~> ( \/ pc[c] # "get_wait"
           \/ Len(buffer_) < arg[c].min_bytes
           \/ health # "ok" )

\* C21: in every reachable state the bytes returned so far by sync_get_data,
\* in the order the calls held the lock, followed by the bytes in the buffer,
\* are the bytes of the successful async_add_data calls in the order those
\* calls held the lock: no byte is lost, duplicated or reordered.
C21_NoByteLostOrReordered == got \o buffer_ = log

\* C22: an async_add_data call (with data to append) that leaves its
\* critical section while the stopped flag is set has not appended: the
\* buffer is as it was and the call is over, not on its way to return
\* NoError.
C22_NoAppendWhileStopped ==
  [][\A p \in Producers :
       ( /\ pc[p] = "add_cs" /\ pc'[p] # "add_cs"
         /\ stopped_ /\ arg[p] # <<>> ) =>
         /\ buffer_' = buffer_
         /\ pc'[p] = "idle"]_vars

\* C23: after construction and after every addInternalRequest,
\* addExternalRequest and move, the direction is IDLE exactly when no request
\* is pending, it is UP only with a pending request above the current floor
\* and DOWN only with one below it, and the current floor is in neither
\* request set.
C23_DirectionMatchesRequests ==
  /\ (direction_ = "IDLE") <=> (Pending = {})
  /\ direction_ = "UP" => \E f \in Pending : f > current_floor_
  /\ direction_ = "DOWN" => \E f \in Pending : f < current_floor_
  /\ direction_ \in {"UP", "DOWN", "IDLE"}
  /\ current_floor_ \notin internal_requests_
  /\ current_floor_ \notin external_requests_

\* C23 witness: a request for the floor the elevator is at, made on its way
\* up, was accepted and is not pending.
C23_Witness ==
  /\ last_call = Call("addInternalRequest", current_floor_, "ok")
  /\ current_floor_ > kMinFloor
  /\ direction_ = "UP"

\* C24: in every reachable state, after any requests, accepted or rejected,
\* and any moves, the current floor is one of kMinFloor..kMaxFloor.
C24_FloorInRange ==
  current_floor_ \in kMinFloor..kMaxFloor

\* C24 witness: at the top floor a request for the floor above it was
\* rejected.
C24_Witness ==
  /\ current_floor_ = kMaxFloor
  /\ last_call = Call("addInternalRequest", kMaxFloor + 1, "InvalidFloor")

\* C25 as stated: whenever the direction is UP and a pending request lies
\* above the current floor, the direction is still UP after the next move()
\* or request, and symmetrically for DOWN and a request below; and the
\* direction turns from UP to DOWN, or from DOWN to UP, only into a state
\* with no pending request ahead and some pending request behind.
C25_StaysWhileRequestsAhead ==
  [][/\ ( /\ direction_ = "UP"
          /\ \E f \in Pending : f > current_floor_ ) => direction_' = "UP"
     /\ ( /\ direction_ = "DOWN"
          /\ \E f \in Pending : f < current_floor_ ) => direction_' = "DOWN"
     /\ (direction_ = "UP" /\ direction_' = "DOWN") =>
          /\ ~ \E f \in Pending' : f > current_floor_'
          /\ \E f \in Pending' : f < current_floor_'
     /\ (direction_ = "DOWN" /\ direction_' = "UP") =>
          /\ ~ \E f \in Pending' : f < current_floor_'
          /\ \E f \in Pending' : f > current_floor_']_vars

\* C25 amended: whenever the direction is UP and a move() or a request
\* leaves a pending request above the floor the elevator is then at, the
\* direction is still UP, and symmetrically for DOWN and a request below; and
\* the direction turns from UP to DOWN, or from DOWN to UP, only into a state
\* with no pending request ahead and some pending request behind.
C25_StaysWhileRequestsRemainAhead ==
  [][/\ ( /\ direction_ = "UP"
          /\ \E f \in Pending' : f > current_floor_' ) => direction_' = "UP"
     /\ ( /\ direction_ = "DOWN"
          /\ \E f \in Pending' : f < current_floor_' ) => direction_' = "DOWN"
     /\ (direction_ = "UP" /\ direction_' = "DOWN") =>
          /\ ~ \E f \in Pending' : f > current_floor_'
          /\ \E f \in Pending' : f < current_floor_'
     /\ (direction_ = "DOWN" /\ direction_' = "UP") =>
          /\ ~ \E f \in Pending' : f < current_floor_'
          /\ \E f \in Pending' : f > current_floor_']_vars

\* C25 witness: the elevator has moved on upwards with a request pending
\* behind it and one ahead.
C25_Witness ==
  /\ last_call.op = "move"
  /\ direction_ = "UP"
  /\ \E f \in Pending : f < current_floor_
  /\ \E f \in Pending : f > current_floor_

\* The distance between two floors.
Distance(a, b) == IF a < b THEN b - a ELSE a - b

\* The pending requests at the smallest distance from the current floor.
Nearest ==
  {f \in Pending : \A g \in Pending :
     Distance(current_floor_, f) <= Distance(current_floor_, g)}

\* C26: whenever updateDirection runs with the direction IDLE and picks a
\* new direction, some pending request at the smallest distance from the
\* current floor lies in the direction picked.
C26_IdlePicksNearest ==
  [][(direction_ = "IDLE" /\ direction_' # "IDLE") =>
       /\ direction_' = "UP" => \E f \in Nearest' : f > current_floor_'
       /\ direction_' = "DOWN" => \E f \in Nearest' : f < current_floor_']_vars

\* C26 witness: an idle elevator above the ground floor was called to a
\* lower floor and has turned downwards.
C26_Witness ==
  /\ last_call.op \in {"addInternalRequest", "addExternalRequest"}
  /\ last_call.floor < current_floor_
  /\ direction_ = "DOWN"
  /\ Pending = {last_call.floor}

=============================================================================
